---- MODULE Spec2Model ----
(***************************************************************************)
(* Model of src/src/event_formatter.rs (tracing-stackdriver): the          *)
(* EventFormatter that writes one JSON record per tracing event into a     *)
(* streaming serde_json map, and the TraceIdVisitor that extracts a trace  *)
(* id from the formatted fields of the spans in scope.                     *)
(*                                                                         *)
(* Strings whose characters matter (the values handed to record_str) are   *)
(* sequences of one-character strings.  Option<T> is a sequence of length  *)
(* 0 (None) or 1 (Some).  The sink is the sequence of the separate writes  *)
(* made into the writer.                                                   *)
(***************************************************************************)
EXTENDS Integers, Sequences, FiniteSets, TLC

\* ------------------------------------------------------------------ bounds
\* longest string handed to record_str in SpecStr
MaxLen == 4
\* most spans visit_spans walks for one event
MaxScope == 2

\* ------------------------------------------------------------ Option<T>
None == << >>
Some(v) == << v >>
IsSome(o) == Len(o) = 1
Unwrap(o) == o[1]

\* ------------------------------------------------------------- strings
Q == "\""
Colon == ":"

\* the characters the bounded record_str inputs are drawn from
Alphabet == { Colon, Q, "a" }

\* all strings of length at most n over the set S
StringsUpTo(S, n) == UNION { [1..k -> S] : k \in 0..n }

\* the two values of the field-scan examples: field:"abc123" and abc123
FieldAbc == << "f", "i", "e", "l", "d", Colon, Q, "a", "b", "c", "1", "2", "3", Q >>
Abc == << "a", "b", "c", "1", "2", "3" >>

\* JsonFields' rendering of a span whose only field is trace_id = "<id>":
\* {"trace_id":"<id>"}
TraceJson(id) ==
    << "{", Q, "t", "r", "a", "c", "e", "_", "i", "d", Q, Colon, Q >> \o id \o << Q, "}" >>

\* JsonFields' rendering of a span whose only field is trace_id = 7 (a number):
\* {"trace_id":7}
TraceJsonNumber ==
    << "{", Q, "t", "r", "a", "c", "e", "_", "i", "d", Q, Colon, "7", "}" >>

\* JsonFields' rendering of a span that records user = 42: {"user":42}
UserJson == << "{", Q, "u", "s", "e", "r", Q, Colon, "4", "2", "}" >>

\* str::split(':'): the pieces between the colons, in order (never empty)
RECURSIVE Split(_)
Split(s) ==
    IF \E i \in 1..Len(s) : s[i] = Colon
    THEN LET i == CHOOSE k \in 1..Len(s) :
                     s[k] = Colon /\ \A j \in 1..(k - 1) : s[j] # Colon
         IN  << SubSeq(s, 1, i - 1) >> \o Split(SubSeq(s, i + 1, Len(s)))
    ELSE << s >>

\* Iterator::skip(n)
Skip(xs, n) == SubSeq(xs, n + 1, Len(xs))

\* &quoted[1..quoted.len() - 2] panics unless 1 <= len - 2 <= len in usize:
\* for len < 2 the subtraction overflows (a panic with overflow checks, an
\* end beyond the string without them), for len = 2 the range is 1..0.
SlicePanics(quoted) == Len(quoted) < 3

\* &quoted[1..quoted.len() - 2], Rust's 0-based half-open range in 1-based form
Slice(quoted) == SubSeq(quoted, 2, Len(quoted) - 2)

\* TraceIdVisitor::new
TraceIdVisitorNew == [ trace_id |-> None, panicked |-> FALSE ]

\* a record_str that keeps the id already stored
RecordStrKeepFirst(self, name, value) ==
    IF name # "trace_id" \/ IsSome(self.trace_id) THEN self
    ELSE LET rest == Skip(Split(value), 1)
         IN  IF rest = << >> THEN [ self EXCEPT !.trace_id = Some(value) ]
             ELSE IF SlicePanics(rest[1]) THEN [ self EXCEPT !.panicked = TRUE ]
             ELSE [ self EXCEPT !.trace_id = Some(Slice(rest[1])) ]

\* TraceIdVisitor::record_str.  The iterator chain is lazy: find(|_| true)
\* pulls only the first piece after the skipped one, so the slice is taken
\* of that piece alone; with no such piece unwrap_or yields the raw value.
RecordStr(self, name, value) ==
    IF name # "trace_id" THEN self
    ELSE LET rest == Skip(Split(value), 1)
         IN  IF rest = << >> THEN [ self EXCEPT !.trace_id = Some(value) ]
             ELSE IF SlicePanics(rest[1]) THEN [ self EXCEPT !.panicked = TRUE ]
             ELSE [ self EXCEPT !.trace_id = Some(Slice(rest[1])) ]

\* --------------------------------------------------------------- inputs
\* the spans a context can hold.  declares: the span's field set has a field
\* named trace_id; formatted: its FormattedFields<JsonFields> extension
SpanT1 == [ declares |-> TRUE, formatted |-> Some(TraceJson(<< "t", "1" >>)) ]
SpanT2 == [ declares |-> TRUE, formatted |-> Some(TraceJson(<< "t", "2" >>)) ]
SpanNoExt == [ declares |-> TRUE, formatted |-> None ]
SpanUser == [ declares |-> FALSE, formatted |-> Some(UserJson) ]
SpanNum == [ declares |-> TRUE, formatted |-> Some(TraceJsonNumber) ]
SpanSet == { SpanT1, SpanT2, SpanNoExt, SpanUser, SpanNum }

\* the field lists an event can record (one name collides with a fixed key)
FieldLists == { << >>, << "time", "message" >> }

\* event: metadata file and line, the explicit parent (none, an id the
\* context resolves, an id it does not), and the recorded field names
Events ==
    { e \in [ file : { None, Some("main.rs") },
              line : { None, Some("42") },
              parent : { "none", "resolves", "dangling" },
              fields : FieldLists ] :
        IsSome(e.line) => IsSome(e.file) }

\* a resolution that falls back to a current span even when there is none
ResolveSpanAlways(e, x) ==
    IF e.parent = "resolves" THEN Some("parent") ELSE Some("current")

\* event.parent().and_then(|id| context.span(id))
\*      .or_else(|| context.lookup_current())
ResolveSpan(e, x) ==
    IF e.parent = "resolves" THEN Some("parent")
    ELSE IF x.current THEN Some("current")
    ELSE None

\* the span context of an event: whether the framework has a current span,
\* and the spans visit_spans hands to the closure, in the order it visits
\* them.  With neither a resolvable parent nor a current span there is
\* nothing to visit.
Contexts(e) ==
    { x \in [ current : BOOLEAN, scope : StringsUpTo(SpanSet, MaxScope) ] :
        (e.parent # "resolves" /\ ~x.current) => x.scope = << >> }

\* -------------------------------------------------------------- the sink
\* one separate write into the writer: c is the thread whose call made it
\* (0 for what the writer held before), by is "fmt" for EventFormatter and
\* "visitor" for the field visitor
Tok(c, by, kind, key, val) ==
    [ c |-> c, by |-> by, kind |-> kind, key |-> key, val |-> val ]

\* what earlier calls left in a writer is opaque to the next call, which can
\* only append: it is carried as one token
PriorTok == Tok(0, "other", "prior", "", << >>)
Carry(s) == IF s = << >> THEN << >> ELSE << PriorTok >>

SrcLocKey == "logging.googleapis.com/sourceLocation"
TraceRefKey == "logging.googleapis.com/trace"

\* SourceLocation { file, line: meta.line() }
SourceLocation(file, line) ==
    << "file", file, "line", IF IsSome(line) THEN Unwrap(line) ELSE "null" >>

\* a guard that ignores include_source_location
WritesSourceLocationAlways(include, file) == IsSome(file)

\* the two ifs that guard the sourceLocation entry
WritesSourceLocation(include, file) == include /\ IsSome(file)

\* the closure given to visit_spans, on one span
VisitSpan(visitor, s) ==
    IF s.declares /\ IsSome(s.formatted)
    THEN RecordStr(visitor, "trace_id", Unwrap(s.formatted))
    ELSE visitor

\* context.visit_spans(closure): the spans in visiting order; a panic in the
\* closure unwinds out of the walk
RECURSIVE VisitSpans(_, _)
VisitSpans(scope, visitor) ==
    IF scope = << >> \/ visitor.panicked THEN visitor
    ELSE VisitSpans(Tail(scope), VisitSpan(visitor, Head(scope)))

\* an order that writes the span entry before the sourceLocation entry
AfterSwapped(p) ==
    CASE p = "time" -> "open"
      [] p = "open" -> "w_time"
      [] p = "w_time" -> "w_target"
      [] p = "w_target" -> "w_span"
      [] p = "w_span" -> "w_srcloc"
      [] p = "w_srcloc" -> "scan"
      [] p = "scan" -> "w_trace"
      [] p = "w_trace" -> "v_new"
      [] p = "v_new" -> "visit"
      [] p = "visit" -> "finish"
      [] p = "finish" -> "newline"

\* the order of the statements of format_event: the step after step p
After(p) ==
    CASE p = "time" -> "open"
      [] p = "open" -> "w_time"
      [] p = "w_time" -> "w_target"
      [] p = "w_target" -> "w_srcloc"
      [] p = "w_srcloc" -> "w_span"
      [] p = "w_span" -> "scan"
      [] p = "scan" -> "w_trace"
      [] p = "w_trace" -> "v_new"
      [] p = "v_new" -> "visit"
      [] p = "visit" -> "finish"
      [] p = "finish" -> "newline"

\* a terminator written twice
WritelnTwice(s, c) ==
    s \o << Tok(c, "fmt", "nl", "", << >>), Tok(c, "fmt", "nl", "", << >>) >>

\* writeln!(writer)
Writeln(s, c) == s \o << Tok(c, "fmt", "nl", "", << >>) >>

\* an outer format_event that ignores the inner result
OuterAlwaysWriteln(s, c, ok) == Writeln(s, c)

\* the outer format_event after the inner one returned: `?` then writeln!
Outer(s, c, ok) == IF ok THEN Writeln(s, c) ELSE s

\* ------------------------------------------------------------------ state
VARIABLES
    include_source_location, \* EventFormatter's only field
    sink,                    \* the writes made into the writer, oldest first
    mode,                    \* "single", "shared" or "serialized" sink
    lock,                    \* the thread a serializing sink admits, or 0
    pc,                      \* each thread's position in format_event
    ev,                      \* each thread's event
    ctx,                     \* each thread's span context
    span,                    \* local `span`
    trace_id,                \* local `trace_id`, the TraceIdVisitor
    vi,                      \* fields of the event the visitor has recorded
    start,                   \* length of the writer when the call received it
    result,                  \* what the thread's last call returned
    failedBefore,            \* some returned call did not succeed
    input,                   \* SpecStr: the field name and value recorded
    output                   \* SpecStr: the visitor after record_str

vars ==
    << include_source_location, sink, mode, lock, pc, ev, ctx, span, trace_id,
       vi, start, result, failedBefore, input, output >>

Threads == { 1, 2 }

NoResult == [ st |-> "none", at |-> "" ]
NoEvent == [ file |-> None, line |-> None, parent |-> "none", fields |-> << >> ]
NoContext == [ current |-> FALSE, scope |-> << >> ]
NoInput == [ name |-> "", value |-> << >> ]

Locals0 ==
    /\ pc = [ t \in Threads |-> "idle" ]
    /\ ev = [ t \in Threads |-> NoEvent ]
    /\ ctx = [ t \in Threads |-> NoContext ]
    /\ span = [ t \in Threads |-> None ]
    /\ trace_id = [ t \in Threads |-> TraceIdVisitorNew ]
    /\ vi = [ t \in Threads |-> 0 ]
    /\ start = [ t \in Threads |-> 0 ]
    /\ result = [ t \in Threads |-> NoResult ]
    /\ failedBefore = FALSE
    /\ lock = 0
    /\ sink = << >>

\* a formatter as constructed (Default sets the flag, the crate may clear
\* it), used by one thread that formats one event after the other
Init ==
    /\ include_source_location \in BOOLEAN
    /\ mode = "single"
    /\ Locals0
    /\ input = NoInput
    /\ output = None

\* ---------------------------------------------------------------- actions
\* the sink admits thread t now (a serializing sink admits one call at a
\* time, from its first step to its return)
Admitted(t) == mode = "serialized" => lock = t

\* format_event returns: r is the result, s the writer's content
Return(t, r, s) ==
    /\ pc' = [ pc EXCEPT ![t] = "returned" ]
    /\ result' = [ result EXCEPT ![t] = r ]
    /\ failedBefore' = (failedBefore \/ r.st # "ok")
    /\ lock' = 0
    /\ sink' = s

\* the inner format_event returned Ok(()) or Err: the outer one's `?` and writeln!
Finished(t, ok, at) ==
    Return(t, [ st |-> IF ok THEN "ok" ELSE "err", at |-> at ],
           Outer(sink, t, ok))

\* a write that succeeded: its tokens are appended and the call moves on
Write(t, toks, next) ==
    /\ sink' = sink \o toks
    /\ pc' = [ pc EXCEPT ![t] = next ]
    /\ UNCHANGED << result, failedBefore, lock >>

Entry(t, by, key, val) == Tok(t, by, "entry", key, val)

\* the framework calls FormatEvent::format_event on thread t with the
\* writer, the event e and its span context x
Call(t, e, x) ==
    /\ pc[t] = "idle"
    /\ mode = "serialized" => lock = 0
    /\ ev' = [ ev EXCEPT ![t] = e ]
    /\ ctx' = [ ctx EXCEPT ![t] = x ]
    /\ pc' = [ pc EXCEPT ![t] = "time" ]
    /\ start' = [ start EXCEPT ![t] = Len(sink) ]
    /\ lock' = IF mode = "serialized" THEN t ELSE lock
    /\ UNCHANGED << include_source_location, sink, mode, span, trace_id, vi,
                    result, failedBefore, input, output >>

\* after the return the event, the context and the locals of the call are
\* gone; s is what the writer holds for the next call
Drop(t, s) ==
    /\ pc[t] = "returned"
    /\ pc' = [ pc EXCEPT ![t] = "idle" ]
    /\ ev' = [ ev EXCEPT ![t] = NoEvent ]
    /\ ctx' = [ ctx EXCEPT ![t] = NoContext ]
    /\ span' = [ span EXCEPT ![t] = None ]
    /\ trace_id' = [ trace_id EXCEPT ![t] = TraceIdVisitorNew ]
    /\ vi' = [ vi EXCEPT ![t] = 0 ]
    /\ start' = [ start EXCEPT ![t] = 0 ]
    /\ result' = [ result EXCEPT ![t] = NoResult ]
    /\ sink' = s
    /\ UNCHANGED << include_source_location, mode, lock, failedBefore, input,
                    output >>

\* OffsetDateTime::now_utc().format(&Rfc3339)? succeeded; meta, severity and
\* span are computed
FormatTime(t) ==
    /\ pc[t] = "time" /\ Admitted(t)
    /\ span' = [ span EXCEPT ![t] = ResolveSpan(ev[t], ctx[t]) ]
    /\ pc' = [ pc EXCEPT ![t] = After("time") ]
    /\ UNCHANGED << include_source_location, sink, mode, lock, ev, ctx, trace_id,
                    vi, start, result, failedBefore, input, output >>

\* the timestamp could not be formatted: Error::Time, before any write
TimeFails(t) ==
    /\ pc[t] = "time" /\ Admitted(t)
    /\ Finished(t, FALSE, "time")
    /\ UNCHANGED << include_source_location, mode, ev, ctx, span, trace_id, vi,
                    start, input, output >>

\* serializer.serialize_map(None)?
OpenMap(t) ==
    /\ pc[t] = "open" /\ Admitted(t)
    /\ Write(t, << Tok(t, "fmt", "open", "", << >>) >>, After("open"))
    /\ UNCHANGED << include_source_location, mode, ev, ctx, span, trace_id, vi,
                    start, input, output >>

\* map.serialize_entry("time", &time)?
WriteTime(t) ==
    /\ pc[t] = "w_time" /\ Admitted(t)
    /\ Write(t, << Entry(t, "fmt", "time", << "rfc3339" >>) >>, After("w_time"))
    /\ UNCHANGED << include_source_location, mode, ev, ctx, span, trace_id, vi,
                    start, input, output >>

\* map.serialize_entry("target", &meta.target())?
WriteTarget(t) ==
    /\ pc[t] = "w_target" /\ Admitted(t)
    /\ Write(t, << Entry(t, "fmt", "target", << "target" >>) >>, After("w_target"))
    /\ UNCHANGED << include_source_location, mode, ev, ctx, span, trace_id, vi,
                    start, input, output >>

\* if self.include_source_location { if let Some(file) = meta.file() { .. } }
WriteSourceLocation(t) ==
    /\ pc[t] = "w_srcloc" /\ Admitted(t)
    /\ Write(t,
             IF WritesSourceLocation(include_source_location, ev[t].file)
             THEN << Entry(t, "fmt", SrcLocKey,
                           SourceLocation(Unwrap(ev[t].file), ev[t].line)) >>
             ELSE << >>,
             After("w_srcloc"))
    /\ UNCHANGED << include_source_location, mode, ev, ctx, span, trace_id, vi,
                    start, input, output >>

\* if let Some(span) = span { map.serialize_entry("span", ..)? }
WriteSpan(t) ==
    /\ pc[t] = "w_span" /\ Admitted(t)
    /\ Write(t,
             IF IsSome(span[t])
             THEN << Entry(t, "fmt", "span", span[t]) >>
             ELSE << >>,
             After("w_span"))
    /\ UNCHANGED << include_source_location, mode, ev, ctx, span, trace_id, vi,
                    start, input, output >>

\* let mut trace_id = TraceIdVisitor::new(); context.visit_spans(..)?
\* The closure returns Ok for every span, so the walk cannot return an
\* error; record_str can panic, and the panic unwinds out of format_event.
ScanSpans(t) ==
    /\ pc[t] = "scan" /\ Admitted(t)
    /\ LET v == VisitSpans(ctx[t].scope, TraceIdVisitorNew)
       IN  /\ trace_id' = [ trace_id EXCEPT ![t] = v ]
           /\ IF v.panicked
              THEN Return(t, [ st |-> "panic", at |-> "scan" ], sink)
              ELSE /\ pc' = [ pc EXCEPT ![t] = After("scan") ]
                   /\ UNCHANGED << sink, result, failedBefore, lock >>
    /\ UNCHANGED << include_source_location, mode, ev, ctx, span, vi, start,
                    input, output >>

\* if let Some(trace_id) = trace_id.trace_id { map.serialize_entry("traceId", ..)? }
WriteTraceId(t) ==
    /\ pc[t] = "w_trace" /\ Admitted(t)
    /\ Write(t,
             IF IsSome(trace_id[t].trace_id)
             THEN << Entry(t, "fmt", "traceId", Unwrap(trace_id[t].trace_id)) >>
             ELSE << >>,
             After("w_trace"))
    /\ UNCHANGED << include_source_location, mode, ev, ctx, span, trace_id, vi,
                    start, input, output >>

\* Visitor::new(severity, map): the visitor takes the open map and emits
\* the severity
VisitorNew(t) ==
    /\ pc[t] = "v_new" /\ Admitted(t)
    /\ Write(t, << Entry(t, "visitor", "severity", << "severity" >>) >>,
             IF ev[t].fields = << >> THEN After("visit") ELSE After("v_new"))
    /\ vi' = [ vi EXCEPT ![t] = 0 ]
    /\ UNCHANGED << include_source_location, mode, ev, ctx, span, trace_id,
                    start, input, output >>

\* event.record(&mut visitor): the next field of the event, under its name
EventRecord(t) ==
    /\ pc[t] = "visit" /\ Admitted(t)
    /\ vi[t] < Len(ev[t].fields)
    /\ Write(t, << Entry(t, "visitor", ev[t].fields[vi[t] + 1], << "value" >>) >>,
             IF vi[t] + 1 = Len(ev[t].fields) THEN After("visit") ELSE "visit")
    /\ vi' = [ vi EXCEPT ![t] = vi[t] + 1 ]
    /\ UNCHANGED << include_source_location, mode, ev, ctx, span, trace_id,
                    start, input, output >>

\* visitor.finish(): the map is closed
VisitorFinish(t) ==
    /\ pc[t] = "finish" /\ Admitted(t)
    /\ Write(t, << Tok(t, "visitor", "close", "", << >>) >>, After("finish"))
    /\ UNCHANGED << include_source_location, mode, ev, ctx, span, trace_id, vi,
                    start, input, output >>

\* the inner format_event returned Ok(()): writeln!(writer)
WriteNewline(t) ==
    /\ pc[t] = "newline" /\ Admitted(t)
    /\ Finished(t, TRUE, "")
    /\ UNCHANGED << include_source_location, mode, ev, ctx, span, trace_id, vi,
                    start, input, output >>

\* writeln!(writer) itself failed: the record stays without its terminator
NewlineFails(t) ==
    /\ pc[t] = "newline" /\ Admitted(t)
    /\ Return(t, [ st |-> "err", at |-> "newline" ], sink)
    /\ UNCHANGED << include_source_location, mode, ev, ctx, span, trace_id, vi,
                    start, input, output >>

\* the key of the entry the step at pc[t] is about to write, None when the
\* step writes no entry
EntryKey(t) ==
    CASE pc[t] = "w_time" -> Some("time")
      [] pc[t] = "w_target" -> Some("target")
      [] pc[t] = "w_srcloc" ->
            IF WritesSourceLocation(include_source_location, ev[t].file)
            THEN Some(SrcLocKey) ELSE None
      [] pc[t] = "w_span" -> IF IsSome(span[t]) THEN Some("span") ELSE None
      [] pc[t] = "w_trace" ->
            IF IsSome(trace_id[t].trace_id) THEN Some("traceId") ELSE None
      [] pc[t] = "v_new" -> Some("severity")
      [] pc[t] = "visit" -> Some(ev[t].fields[vi[t] + 1])
      [] OTHER -> None

\* who writes at step p
Writer(p) == IF p \in { "v_new", "visit", "finish" } THEN "visitor" ELSE "fmt"

\* serialize_map or the closing of the map failed: one write, nothing of it
\* reaches the sink
MapFails(t) ==
    /\ pc[t] \in { "open", "finish" } /\ Admitted(t)
    /\ Finished(t, FALSE, pc[t])
    /\ UNCHANGED << include_source_location, mode, ev, ctx, span, trace_id, vi,
                    start, input, output >>

\* serialize_entry failed.  The map streams: the key and the value go to the
\* writer as separate writes, so the failing entry leaves either nothing or
\* a leading part of itself
EntryFails(t) ==
    /\ IsSome(EntryKey(t)) /\ Admitted(t)
    /\ \E part \in { << >>,
                     << Tok(t, Writer(pc[t]), "partial", Unwrap(EntryKey(t)), << >>) >> } :
          Return(t, [ st |-> "err", at |-> pc[t] ],
                 Outer(sink \o part, t, FALSE))
    /\ UNCHANGED << include_source_location, mode, ev, ctx, span, trace_id, vi,
                    start, input, output >>

Step(t) ==
    \/ FormatTime(t) \/ TimeFails(t) \/ OpenMap(t) \/ WriteTime(t)
    \/ WriteTarget(t) \/ WriteSourceLocation(t) \/ WriteSpan(t) \/ ScanSpans(t)
    \/ WriteTraceId(t) \/ VisitorNew(t) \/ EventRecord(t) \/ VisitorFinish(t)
    \/ WriteNewline(t) \/ NewlineFails(t) \/ MapFails(t) \/ EntryFails(t)

\* a call with any event and any span context of that event
CallAny(t) ==
    /\ pc[t] = "idle"
    /\ \E e \in Events : \E x \in Contexts(e) : Call(t, e, x)

Next ==
    \/ CallAny(1)
    \/ Step(1)
    \/ Drop(1, Carry(sink))

Spec == Init /\ [][Next]_vars

\* ------------------------------------------- two threads, one shared sink
\* the event and the context of the concurrent calls
ConcEvent ==
    [ file |-> None, line |-> None, parent |-> "none", fields |-> << "time", "message" >> ]

\* a formatter as Default builds it, shared by two threads that write into
\* one sink; the sink either lets their writes interleave or admits one call
\* at a time
InitConc ==
    /\ include_source_location = TRUE
    /\ mode \in { "shared", "serialized" }
    /\ Locals0
    /\ input = NoInput
    /\ output = None

\* each thread formats one event (its call is never dropped, so the thread
\* does not come back to idle)
CallOnce(t) == Call(t, ConcEvent, NoContext)

NextConc == \E t \in Threads : CallOnce(t) \/ Step(t)

SpecConc == InitConc /\ [][NextConc]_vars

\* ------------------------------------------------- record_str on its own
\* a field name and a bounded string value (the two examples included)
StrInputs ==
    [ name : { "trace_id", "other" },
      value : StringsUpTo(Alphabet, MaxLen) \cup { FieldAbc, Abc } ]

InitStr ==
    /\ include_source_location = TRUE
    /\ mode = "single"
    /\ Locals0
    /\ input \in StrInputs
    /\ output = None

\* a fresh TraceIdVisitor records the field
RecordField ==
    /\ output = None
    /\ output' = Some(RecordStr(TraceIdVisitorNew, input.name, input.value))
    /\ UNCHANGED << include_source_location, sink, mode, lock, pc, ev, ctx, span,
                    trace_id, vi, start, result, failedBefore, input >>

NextStr == RecordField

SpecStr == InitStr /\ [][NextStr]_vars

\* ------------------------------------------------------- reading the sink
\* the writes of thread t's current call, oldest first
IsMine(t, k) == k.c = t
Mine(t) == SelectSeq(sink, LAMBDA k : IsMine(t, k))

\* the entries (whole or partial) the formatter itself wrote under a key
FmtWrote(t, key) ==
    { i \in 1..Len(Mine(t)) :
        /\ Mine(t)[i].by = "fmt"
        /\ Mine(t)[i].kind \in { "entry", "partial" }
        /\ Mine(t)[i].key = key }

\* position of a write in the fixed order of a record
FixedRank(key) ==
    CASE key = "time" -> 1
      [] key = "target" -> 2
      [] key = SrcLocKey -> 3
      [] key = "span" -> 4
      [] key = "traceId" -> 5
      [] OTHER -> 99

Rank(k) ==
    CASE k.kind = "open" -> 0
      [] k.kind \in { "entry", "partial" } /\ k.by = "fmt" -> FixedRank(k.key)
      [] k.kind \in { "entry", "partial" } /\ k.by = "visitor" -> 6
      [] k.kind = "close" -> 7
      [] k.kind = "nl" -> 8
      [] OTHER -> 99

\* the spans of a walk that store an id: they declare trace_id and carry
\* formatted fields
Storing(scope) ==
    { i \in 1..Len(scope) : scope[i].declares /\ IsSome(scope[i].formatted) }

Declaring(scope) == { i \in 1..Len(scope) : scope[i].declares }

Last(S) == CHOOSE i \in S : \A j \in S : j <= i

\* what record_str stores for one formatted value, None if it panics
Extracted(value) == RecordStr(TraceIdVisitorNew, "trace_id", value).trace_id

\* the record a call is to write, told from its inputs alone: the tokens
\* of each step, in the order of section 4.5
ExpectedSpan(e, x) ==
    IF e.parent = "resolves" THEN << "parent" >>
    ELSE IF x.current THEN << "current" >> ELSE << >>

ExpectedId(scope) ==
    IF Storing(scope) = { } THEN None
    ELSE Extracted(Unwrap(scope[Last(Storing(scope))].formatted))

Section(e, x, inc, c, p) ==
    CASE p = "open" -> << Tok(c, "fmt", "open", "", << >>) >>
      [] p = "w_time" -> << Tok(c, "fmt", "entry", "time", << "rfc3339" >>) >>
      [] p = "w_target" -> << Tok(c, "fmt", "entry", "target", << "target" >>) >>
      [] p = "w_srcloc" ->
            IF inc /\ e.file # None
            THEN << Tok(c, "fmt", "entry", SrcLocKey,
                        << "file", e.file[1], "line",
                           IF e.line = None THEN "null" ELSE e.line[1] >>) >>
            ELSE << >>
      [] p = "w_span" ->
            IF ExpectedSpan(e, x) # << >>
            THEN << Tok(c, "fmt", "entry", "span", ExpectedSpan(e, x)) >>
            ELSE << >>
      [] p = "w_trace" ->
            IF ExpectedId(x.scope) # None
            THEN << Tok(c, "fmt", "entry", "traceId", ExpectedId(x.scope)[1]) >>
            ELSE << >>
      [] p = "v_new" ->
            << Tok(c, "visitor", "entry", "severity", << "severity" >>) >>
      [] p = "visit" ->
            [ i \in 1..Len(e.fields) |->
                Tok(c, "visitor", "entry", e.fields[i], << "value" >>) ]
      [] p = "finish" -> << Tok(c, "visitor", "close", "", << >>) >>
      [] p = "newline" -> << Tok(c, "fmt", "nl", "", << >>) >>
      [] OTHER -> << >>

StepOrder ==
    << "time", "open", "w_time", "w_target", "w_srcloc", "w_span", "scan",
       "w_trace", "v_new", "visit", "finish", "newline" >>

StepIndex(p) == CHOOSE i \in 1..Len(StepOrder) : StepOrder[i] = p

RECURSIVE SectionsUpTo(_, _, _, _, _)
SectionsUpTo(e, x, inc, c, n) ==
    IF n = 0 THEN << >>
    ELSE SectionsUpTo(e, x, inc, c, n - 1) \o Section(e, x, inc, c, StepOrder[n])

\* what the steps before step p wrote (j fields recorded when p is "visit")
Before(e, x, inc, c, p, j) ==
    SectionsUpTo(e, x, inc, c, StepIndex(p) - 1)
        \o (IF p = "visit" THEN SubSeq(Section(e, x, inc, c, "visit"), 1, j)
            ELSE << >>)

\* the closed JSON object of a call
Record(e, x, inc, c) == SectionsUpTo(e, x, inc, c, StepIndex("finish"))

\* what thread t's call appended to the writer it received
Appended(t) == SubSeq(sink, start[t] + 1, Len(sink))

\* --------------------------------------------------------------- C1
\* C1: in every record under construction or written, the formatter's keys
\* appear in the order time, target, sourceLocation, span, traceId, each at
\* most once, the event's own fields come only after all of them, and
\* nothing but the line terminator follows the closing of the map.
Thm_C1_FixedOrder ==
    pc[1] # "idle" =>
        LET m == Mine(1)
        IN  /\ \A i \in 1..Len(m) : Rank(m[i]) # 99
            /\ \A i \in 1..(Len(m) - 1) :
                  /\ Rank(m[i]) <= Rank(m[i + 1])
                  /\ Rank(m[i]) = Rank(m[i + 1]) => Rank(m[i]) = 6

\* witness of C1: a successful record holding all five fixed keys and an event field whose
\* name collides with one of them
Wit_C1_AllKeys ==
    /\ result[1].st = "ok"
    /\ \A key \in { "time", "target", SrcLocKey, "span", "traceId" } :
          FmtWrote(1, key) # { }
    /\ \E i \in 1..Len(Mine(1)) :
          Mine(1)[i].by = "visitor" /\ Mine(1)[i].key = "time"

\* --------------------------------------------------------------- C3
\* C3: when a trace id is resolved the record holds the key
\* logging.googleapis.com/trace (with projects/{project_id}/traces/{id});
\* when none is resolved no trace field of any name is written.
\* EventFormatter has no project identifier to configure, so the first half
\* is stated for every formatter.
Cex_C3_TraceReference ==
    result[1].st = "ok" =>
        IF IsSome(trace_id[1].trace_id)
        THEN FmtWrote(1, TraceRefKey) # { }
        ELSE FmtWrote(1, TraceRefKey) = { } /\ FmtWrote(1, "traceId") = { }

Thm_C5_NoSpanNoTrace ==
    (pc[1] # "idle" /\ ev[1].parent # "resolves" /\ ~ctx[1].current) =>
        \A key \in { "span", "traceId", TraceRefKey,
                     "logging.googleapis.com/spanId" } :
            FmtWrote(1, key) = { }

\* witness of C5: a successful call whose event names a parent the context does not know,
\* with no current span
Wit_C5_DanglingParent ==
    /\ result[1].st = "ok"
    /\ ev[1].parent = "dangling"
    /\ ~ctx[1].current

Thm_C7_OneRecordOneTerminator ==
    result[1].st = "ok" =>
        /\ Appended(1) =
              Record(ev[1], ctx[1], include_source_location, 1)
                 \o << Tok(1, "fmt", "nl", "", << >>) >>
        /\ \A i \in 1..start[1] : sink[i].c # 1

\* witness of C7: a call succeeded after an earlier call of the same formatter had failed
Wit_C7_SuccessAfterFailure ==
    /\ result[1].st = "ok"
    /\ failedBefore
    /\ start[1] > 0

\* --------------------------------------------------------------- C2
\* C2: recorded for trace_id, the value field:"abc123" resolves to abc123,
\* and the value abc123 resolves to itself.
Cex_C2_Examples ==
    (output # None /\ input.name = "trace_id") =>
        /\ input.value = FieldAbc =>
              ~output[1].panicked /\ output[1].trace_id = Some(Abc)
        /\ input.value = Abc =>
              ~output[1].panicked /\ output[1].trace_id = Some(Abc)

\* --------------------------------------------------------------- C9
\* the text after the first ':' of a value, None when it has no ':'
AfterFirstColon(v) ==
    IF \E i \in 1..Len(v) : v[i] = Colon
    THEN LET i == CHOOSE k \in 1..Len(v) :
                     v[k] = Colon /\ \A j \in 1..(k - 1) : v[j] # Colon
         IN  Some(SubSeq(v, i + 1, Len(v)))
    ELSE None

\* C9: record_str never aborts, and stores either the text after the first
\* ':' without its first and last character or the raw value.
Cex_C9_Total ==
    (output # None /\ input.name = "trace_id") =>
        /\ ~output[1].panicked
        /\ \/ output[1].trace_id = Some(input.value)
           \/ /\ AfterFirstColon(input.value) # None
              /\ Len(AfterFirstColon(input.value)[1]) >= 2
              /\ output[1].trace_id =
                    Some(SubSeq(AfterFirstColon(input.value)[1], 2,
                                Len(AfterFirstColon(input.value)[1]) - 1))

\* --------------------------------------------------------------- C8
\* the lines of the sink: for a terminator at k, the writes after the
\* terminator before it
LineStart(k) ==
    IF \E j \in 1..(k - 1) : sink[j].kind = "nl"
    THEN 1 + CHOOSE j \in 1..(k - 1) :
                 sink[j].kind = "nl" /\ \A h \in (j + 1)..(k - 1) : sink[h].kind # "nl"
    ELSE 1

\* C8 as stated: a successful call makes several separate writes; when the
\* sink admits one call at a time every terminated line holds the closed
\* record of exactly one event.
Cex_C8_OneRecordPerLine ==
    /\ \A t \in Threads :
          result[t].st = "ok" => Len(Mine(t)) >= 6
    /\ mode = "serialized" =>
          \A k \in 1..Len(sink) :
              sink[k].kind = "nl" =>
                  Cardinality({ i \in LineStart(k)..k : sink[i].kind = "close" }) = 1

\* the threads whose call returned because its line terminator failed
LostTerminator == { t \in Threads : result[t] = [ st |-> "err", at |-> "newline" ] }

\* C8 amended: a successful call makes several separate writes; when the
\* sink admits one call at a time no call's writes are split by another's,
\* every terminated line ends with the whole record of the call that wrote
\* the terminator, and any other closed record on that line is that of a
\* call whose own line terminator could not be written.
Thm_C8_SerializedLines ==
    /\ \A t \in Threads :
          result[t].st = "ok" => Len(Mine(t)) >= 6
    /\ mode = "serialized" =>
          /\ \A i, k \in 1..Len(sink) :
                (i < k /\ sink[i].c = sink[k].c) => sink[i + 1].c = sink[i].c
          /\ \A k \in 1..Len(sink) :
                sink[k].kind = "nl" =>
                    LET rec == Record(ConcEvent, NoContext, include_source_location,
                                      sink[k].c)
                    IN  /\ k - Len(rec) >= LineStart(k)
                        /\ SubSeq(sink, k - Len(rec), k - 1) = rec
                        /\ \A i \in LineStart(k)..(k - 2) :
                              sink[i].kind = "close" =>
                                 sink[i].c \in LostTerminator

\* witness of C8: with a sink that lets writes interleave, both calls succeeded and the
\* record of one is split by writes of the other
Wit_C8_Interleaved ==
    /\ mode = "shared"
    /\ result[1].st = "ok" /\ result[2].st = "ok"
    /\ \E i, j, k \in 1..Len(sink) :
          /\ i < j /\ j < k
          /\ sink[i].c = sink[k].c
          /\ sink[j].c # sink[i].c
          /\ sink[k].kind = "close"

====
